---- MODULE Spec2Model ----
(***************************************************************************)
(* Band-break exceedance and SKU ranking of the Walmart forecast dashboard *)
(* (backend/routes/walmart_dashboard.py).                                  *)
(*                                                                         *)
(* A row is a record  [date, value, ci85_low, ci85_high, ci95_low,         *)
(* ci95_high]; SKU rows also carry sku_id and type_id.  Dates are day      *)
(* numbers.  An optional field (Python None or a number) is the empty      *)
(* tuple None or the one-element tuple Some(v).                            *)
(***************************************************************************)
EXTENDS Integers, Sequences, FiniteSets, TLC

VARIABLES
    rows,                  \* get_band_breaks: the argument `rows`
    week_date,             \* get_band_breaks: the argument `week_date`
    pc,                    \* position of the running call
    sorted_rows,           \* get_band_breaks: the local `sorted_rows`
    idx,                   \* position of the for loop in sorted_rows
    breaks,                \* get_band_breaks: the dict `breaks`
    current_upper_consec,  \* get_band_breaks: running upper streak
    current_lower_consec,  \* get_band_breaks: running lower streak
    sku_rows,              \* get_skus: the fetched `rows`
    limit,                 \* get_skus: the query parameter `limit`
    returned,              \* what the request returns
    db_rows,               \* the rows a department, category, location or chart query fetched
    forecast_type,         \* the query parameter `forecast_type`
    window_start,          \* the local `window_start` of a band-break endpoint
    ym, span,              \* _range_from_month_span: its arguments
    start_date, end_date,  \* get_weeks_in_range: its arguments
    weeks_current, weeks,  \* get_weeks_in_range: its locals `current` and `weeks`
    calls                  \* concurrent get_band_breaks calls: the locals of each

auxVars == <<db_rows, forecast_type, window_start, ym, span,
             start_date, end_date, weeks_current, weeks, calls>>

vars == <<rows, week_date, pc, sorted_rows, idx, breaks,
          current_upper_consec, current_lower_consec, sku_rows, limit, returned, auxVars>>

----------------------------------------------------------------------------
(* Bounds of the model *)

MaxRows == 3        \* rows handed to one get_band_breaks call
MaxDate == 3        \* dates are the day numbers 1..MaxDate
MaxSkuRows == 3     \* rows fetched by one get_skus request
MaxSku == 3         \* sku ids are 1..MaxSku
MaxDeptRows == 3    \* rows fetched by one departments or categories request

----------------------------------------------------------------------------
(* Optional values *)

None == <<>>
Some(v) == <<v>>

Dates == 1..MaxDate

(* The actuals of the model: absent, or a number.  With the bands below,   *)
(* 1 lies under, 3 inside and 5 above the 85% band.                        *)
Values == {None, Some(1), Some(3), Some(5)}

(* The confidence bounds of a row, as stored.  BandsNone has no bound at   *)
(* all; BandsNested is a well-formed forecast (the 95% band contains the   *)
(* 85% band; 1 breaks only the lower 85% bound, 5 breaks both upper        *)
(* bounds); BandsInv95 has its 95% bounds inside the 85% band, and         *)
(* BandsInv85 has ci85_high < ci85_low, the inconsistent bounds that       *)
(* get_band_breaks does not defend against.                                *)
BandsNone ==
    [ci85_low |-> None, ci85_high |-> None, ci95_low |-> None, ci95_high |-> None]
BandsNested ==
    [ci85_low |-> Some(2), ci85_high |-> Some(4), ci95_low |-> Some(1), ci95_high |-> Some(4)]
BandsInv95 ==
    [ci85_low |-> Some(2), ci85_high |-> Some(4), ci95_low |-> Some(4), ci95_high |-> Some(2)]
BandsInv85 ==
    [ci85_low |-> Some(4), ci85_high |-> Some(2), ci95_low |-> None, ci95_high |-> None]
BandSet == {BandsNone, BandsNested, BandsInv95, BandsInv85}

MkRow(d, v, b) ==
    [date |-> d, value |-> v, ci85_low |-> b.ci85_low, ci85_high |-> b.ci85_high,
     ci95_low |-> b.ci95_low, ci95_high |-> b.ci95_high]

RowSet == {MkRow(d, v, b) : d \in Dates, v \in Values, b \in BandSet}

SeqsUpTo(S, n) == UNION {[1..k -> S] : k \in 0..n}

----------------------------------------------------------------------------
(* get_band_breaks, walmart_dashboard.py lines 55-101 *)

(* to_date on a value that is already a date returns it (lines 31-32).     *)
to_date(val) == val

(* The dict of lines 57-62. *)
ZeroBreaks ==
    [upper_85 |-> 0, upper_95 |-> 0, lower_85 |-> 0, lower_95 |-> 0,
     upper_85_consec |-> 0, lower_85_consec |-> 0, total_days |-> 0]

(* Line 67, the filter: to_date(r['date']) <= week_date. *)
(* Variants: the reference date itself left out; no filter at all. *)
InWindow_Strict(r, wd) == to_date(r.date) < wd
InWindow_All(r, wd) == TRUE
InWindow(r, wd) == to_date(r.date) <= wd

FilterRows(rs, wd) == SelectSeq(rs, LAMBDA r : InWindow(r, wd))

(* Line 67, sorted(..., key=date): Python's sort is stable, so a row goes  *)
(* after every row already placed whose date is not larger.                *)
InsertByDate(s, r) ==
    LET k == Cardinality({i \in 1..Len(s) : to_date(s[i].date) <= to_date(r.date)})
    IN  SubSeq(s, 1, k) \o <<r>> \o SubSeq(s, k + 1, Len(s))

RECURSIVE SortPrefix(_, _)
SortPrefix(rs, n) ==
    IF n = 0 THEN <<>> ELSE InsertByDate(SortPrefix(rs, n - 1), rs[n])

(* Variant: the rows taken in the order supplied. *)
SortByDate_Unsorted(rs) == rs
SortByDate(rs) == SortPrefix(rs, Len(rs))

(* Variant: the pass cut to the two oldest rows of the window. *)
SortedRows_Oldest2(rs, wd) ==
    LET s == SortByDate(FilterRows(rs, wd))
    IN  SubSeq(s, 1, IF Len(s) < 2 THEN Len(s) ELSE 2)
SortedRows(rs, wd) == SortByDate(FilterRows(rs, wd))

(* Lines 81, 88, 91, 98: the four breach tests. *)
Upper85Breach(r) == r.ci85_high # None /\ r.value[1] > r.ci85_high[1]
Upper95Breach(r) == r.ci95_high # None /\ r.value[1] > r.ci95_high[1]
(* Variant: the lower test made against the upper bound. *)
Lower85Breach_VsHigh(r) == r.ci85_high # None /\ r.value[1] < r.ci85_high[1]
Lower85Breach(r) == r.ci85_low # None /\ r.value[1] < r.ci85_low[1]
Lower95Breach(r) == r.ci95_low # None /\ r.value[1] < r.ci95_low[1]

(* Lines 83/86 and 93/96: the running streak after a day. *)
(* Variant: the else branch missing. *)
StreakAfter_NoReset(breach, current) == IF breach THEN current + 1 ELSE current
StreakAfter(breach, current) == IF breach THEN current + 1 ELSE 0

(* Lines 82, 89, 92, 99: a count after a day. *)
(* Variant: the increment missing. *)
CountAfter_Never(breach, n) == n
CountAfter(breach, n) == IF breach THEN n + 1 ELSE n

(* Lines 84 and 94: max(breaks[...], current) on a breach. *)
Max(a, b) == IF a >= b THEN a ELSE b
ConsecAfter(breach, consec, current) == IF breach THEN Max(consec, current) ELSE consec

(* Line 79: `breaks['total_days'] += 1` *)
(* Variant: the day not counted. *)
TotalDaysAfter_NotCounted(n) == n
TotalDaysAfter(n) == n + 1

(* Lines 76-77: a row without an actual is skipped by `continue`. *)
(* Variant: an absent actual treated as a day without breach. *)
SkipRow_ResetStreaks(acc) ==
    [acc EXCEPT !.current_upper_consec = 0, !.current_lower_consec = 0]
SkipRow(acc) == acc

(* Lines 69-99: one iteration of the loop, on the accumulator              *)
(* [breaks, current_upper_consec, current_lower_consec].                   *)
LoopBody(acc, row) ==
    IF row.value = None THEN SkipRow(acc)
    ELSE
      LET up == Upper85Breach(row)
          lo == Lower85Breach(row)
          cu == StreakAfter(up, acc.current_upper_consec)
          cl == StreakAfter(lo, acc.current_lower_consec)
          b  == acc.breaks
      IN  [breaks |->
              [total_days |-> TotalDaysAfter(b.total_days),
               upper_85 |-> CountAfter(up, b.upper_85),
               upper_85_consec |-> ConsecAfter(up, b.upper_85_consec, cu),
               upper_95 |-> CountAfter(Upper95Breach(row), b.upper_95),
               lower_85 |-> CountAfter(lo, b.lower_85),
               lower_85_consec |-> ConsecAfter(lo, b.lower_85_consec, cl),
               lower_95 |-> CountAfter(Lower95Breach(row), b.lower_95)],
           current_upper_consec |-> cu,
           current_lower_consec |-> cl]

(* Lines 57-65: the state before the loop. *)
ZeroAcc == [breaks |-> ZeroBreaks, current_upper_consec |-> 0, current_lower_consec |-> 0]

RECURSIVE RunLoop(_, _)
RunLoop(s, n) == IF n = 0 THEN ZeroAcc ELSE LoopBody(RunLoop(s, n - 1), s[n])

(* The whole call: the dict returned at line 101. *)
get_band_breaks(rs, wd) ==
    LET s == SortedRows(rs, wd) IN RunLoop(s, Len(s)).breaks

(* Lines 104-106. *)
get_band_breaks_from_rows(rs, wd) == get_band_breaks(rs, wd)

----------------------------------------------------------------------------
(* One call of get_band_breaks, step by step *)

Acc == [breaks |-> breaks, current_upper_consec |-> current_upper_consec,
        current_lower_consec |-> current_lower_consec]

skuIdle == /\ sku_rows = <<>> /\ limit = 0 /\ returned = <<>>

(* The variables of the other requests, while none of them runs. *)
queryIdle == /\ db_rows = <<>> /\ forecast_type = "monthly" /\ window_start = 0
monthIdle == /\ ym = <<>> /\ span = 0
weeksIdle == /\ start_date = 0 /\ end_date = 0 /\ weeks_current = 0 /\ weeks = <<>>
callsIdle == calls = <<>>
auxIdle == queryIdle /\ monthIdle /\ weeksIdle /\ callsIdle

Init ==
    /\ rows \in SeqsUpTo(RowSet, MaxRows)
    /\ week_date \in Dates
    /\ pc = "start"
    /\ sorted_rows = <<>>
    /\ idx = 0
    /\ breaks = ZeroBreaks
    /\ current_upper_consec = 0
    /\ current_lower_consec = 0
    /\ skuIdle
    /\ auxIdle

(* Line 67. *)
FilterSort ==
    /\ pc = "start"
    /\ sorted_rows' = SortedRows(rows, week_date)
    /\ idx' = 1
    /\ pc' = "loop"
    /\ UNCHANGED <<rows, week_date, breaks, current_upper_consec,
                   current_lower_consec, sku_rows, limit, returned, auxVars>>

(* Lines 69-99, one row. *)
Iterate ==
    /\ pc = "loop"
    /\ idx <= Len(sorted_rows)
    /\ LET a == LoopBody(Acc, sorted_rows[idx])
       IN  /\ breaks' = a.breaks
           /\ current_upper_consec' = a.current_upper_consec
           /\ current_lower_consec' = a.current_lower_consec
    /\ idx' = idx + 1
    /\ UNCHANGED <<rows, week_date, pc, sorted_rows, sku_rows, limit, returned, auxVars>>

(* Line 101. *)
Return ==
    /\ pc = "loop"
    /\ idx > Len(sorted_rows)
    /\ pc' = "done"
    /\ UNCHANGED <<rows, week_date, sorted_rows, idx, breaks, current_upper_consec,
                   current_lower_consec, sku_rows, limit, returned, auxVars>>

Next == FilterSort \/ Iterate \/ Return

Spec == Init /\ [][Next]_vars

Done == pc = "done"

----------------------------------------------------------------------------
(* get_skus, walmart_dashboard.py lines 444-491 *)

(* The rows the query of lines 459-466 returns carry sku_id and type_id    *)
(* besides the columns get_band_breaks reads.  Sku ids are numbered in     *)
(* their sort order.  The query keeps the dates up to the week asked for:  *)
(* the model's requests ask for the week MaxDate and the rows are dated    *)
(* on its last two days.  An actual of 5 is over, one of 1 under a nested  *)
(* band; 3 is both over and under the inconsistent band BandsInv85.        *)
SkuIds == 1..MaxSku
TypeIds == {"U", "R"}
SkuDates == {MaxDate - 1, MaxDate}
SkuReadings ==
    {<<Some(5), BandsNested>>, <<Some(1), BandsNested>>, <<Some(3), BandsInv85>>}

MkSkuRow(s, t, d, v, b) ==
    [sku_id |-> s, type_id |-> t, date |-> d, value |-> v,
     ci85_low |-> b.ci85_low, ci85_high |-> b.ci85_high,
     ci95_low |-> b.ci95_low, ci95_high |-> b.ci95_high]

SkuRowSet ==
    {MkSkuRow(s, t, d, m[1], m[2]) : s \in SkuIds, t \in TypeIds, d \in SkuDates, m \in SkuReadings}

(* The values of the parameter `limit` (line 449: any int, 50 by default). *)
Limits == {-1, 0, 1, 2, 50}

(* Lines 468-470: sku_data, a dict, keeps its keys in the order of their   *)
(* first insertion: the sku ids in the order the rows first show them.     *)
RECURSIVE SkuKeys(_, _)
SkuKeys(rs, n) ==
    IF n = 0 THEN <<>>
    ELSE LET ks == SkuKeys(rs, n - 1)
         IN  IF \E i \in 1..Len(ks) : ks[i] = rs[n].sku_id THEN ks
             ELSE Append(ks, rs[n].sku_id)

(* Lines 468-470: sku_data[sku][type], the rows of one sku and type in the *)
(* order fetched.                                                          *)
TypeRows(rs, sku, t) == SelectSeq(rs, LAMBDA r : r.sku_id = sku /\ r.type_id = t)

(* Lines 476-479. *)
(* Variant: revenue.upper_85 counted too. *)
TotalBreaks_WithRevenueUpper(units_breaks, revenue_breaks) ==
    units_breaks.upper_85 + units_breaks.lower_85
        + revenue_breaks.upper_85 + revenue_breaks.lower_85
TotalBreaks(units_breaks, revenue_breaks) ==
    units_breaks.upper_85 + units_breaks.lower_85 + revenue_breaks.lower_85

(* Lines 474-485: the record appended for one sku. *)
SkuRecord(rs, sku, wd) ==
    LET units_breaks == get_band_breaks_from_rows(TypeRows(rs, sku, "U"), wd)
        revenue_breaks == get_band_breaks_from_rows(TypeRows(rs, sku, "R"), wd)
    IN  [sku_id |-> sku, units |-> units_breaks, revenue |-> revenue_breaks,
         _total_breaks |-> TotalBreaks(units_breaks, revenue_breaks)]

(* Lines 472-485: result, before the sort. *)
BuildResult(rs, wd) ==
    LET ks == SkuKeys(rs, Len(rs))
    IN  [i \in 1..Len(ks) |-> SkuRecord(rs, ks[i], wd)]

(* Line 487: result.sort(key=lambda x: -x['_total_breaks']); the sort is   *)
(* stable: a record goes after every record already placed whose key is    *)
(* not larger.                                                             *)
SortKey(x) == 0 - x._total_breaks

(* Variant: a sort that puts a record before those of equal key. *)
InsertByKey_Unstable(s, x) ==
    LET k == Cardinality({i \in 1..Len(s) : SortKey(s[i]) < SortKey(x)})
    IN  SubSeq(s, 1, k) \o <<x>> \o SubSeq(s, k + 1, Len(s))
InsertByKey(s, x) ==
    LET k == Cardinality({i \in 1..Len(s) : SortKey(s[i]) <= SortKey(x)})
    IN  SubSeq(s, 1, k) \o <<x>> \o SubSeq(s, k + 1, Len(s))

RECURSIVE SortByKeyPrefix(_, _)
SortByKeyPrefix(s, n) ==
    IF n = 0 THEN <<>> ELSE InsertByKey(SortByKeyPrefix(s, n - 1), s[n])

SortResult(result) == SortByKeyPrefix(result, Len(result))

(* Lines 488-489: del r['_total_breaks'] for every record of result. *)
(* Variant: the del missing. *)
DropScore_KeepIt(r) == r
DropScore(r) == [f \in (DOMAIN r) \ {"_total_breaks"} |-> r[f]]

DropScores(result) == [i \in 1..Len(result) |-> DropScore(result[i])]

(* Line 491: the slice result[:limit].  A negative limit counts from the   *)
(* end of the list.                                                        *)
Min(a, b) == IF a <= b THEN a ELSE b
SliceTo(s, lim) ==
    LET stop == IF lim >= 0 THEN Min(lim, Len(s)) ELSE Max(Len(s) + lim, 0)
    IN  SubSeq(s, 1, stop)

(* Lines 468-491: what the request returns. *)
get_skus(rs, wd, lim) == SliceTo(DropScores(SortResult(BuildResult(rs, wd))), lim)

bandIdle ==
    /\ rows = <<>> /\ sorted_rows = <<>> /\ idx = 0 /\ breaks = ZeroBreaks
    /\ current_upper_consec = 0 /\ current_lower_consec = 0

InitSkus ==
    /\ sku_rows \in SeqsUpTo(SkuRowSet, MaxSkuRows)
    /\ limit \in Limits
    /\ week_date = MaxDate
    /\ pc = "skus"
    /\ returned = <<>>
    /\ bandIdle
    /\ auxIdle

(* The request, from the fetched rows to the response. *)
GetSkus ==
    /\ pc = "skus"
    /\ returned' = get_skus(sku_rows, week_date, limit)
    /\ pc' = "skus_done"
    /\ UNCHANGED <<rows, week_date, sorted_rows, idx, breaks, current_upper_consec,
                   current_lower_consec, sku_rows, limit, auxVars>>

NextSkus == GetSkus

SpecSkus == InitSkus /\ [][NextSkus]_vars

SkusDone == pc = "skus_done"

----------------------------------------------------------------------------
(* get_departments and get_categories, walmart_dashboard.py lines 167-263 *)

(* product_id is a string; a string is the sequence of its characters, a   *)
(* character the number of its place in the alphabet "0" < "1" < "2".      *)
(* The ids of the model are "1", "10" and "2".                             *)
ProductIds == {<<1>>, <<1, 0>>, <<2>>}

(* Python's < on strings: the first differing character decides, and a     *)
(* proper prefix is smaller.                                               *)
StrLess(a, b) ==
    \E k \in 1..(Len(a) + 1) :
        /\ k <= Len(b)
        /\ \A i \in 1..(k - 1) : a[i] = b[i]
        /\ (k <= Len(a) => a[k] < b[k])

(* The rows of the queries of lines 182-191 and 227-247: dated in the      *)
(* window that ends with the week asked for (the week MaxDate), with an    *)
(* actual over the 85% band or none.                                       *)
DeptDates == {MaxDate - 1, MaxDate}
DeptReadings == {<<None, BandsNested>>, <<Some(5), BandsNested>>}

MkDeptRow(e, t, d, v, b) ==
    [product_id |-> e, type_id |-> t, date |-> d, value |-> v,
     ci85_low |-> b.ci85_low, ci85_high |-> b.ci85_high,
     ci95_low |-> b.ci95_low, ci95_high |-> b.ci95_high]

DeptRowSet ==
    {MkDeptRow(e, t, d, m[1], m[2]) :
        e \in ProductIds, t \in TypeIds, d \in DeptDates, m \in DeptReadings}

(* Lines 193-195 (249-251): dept_data, a defaultdict, gets a key with both *)
(* lists empty when a product_id is first met.                             *)
RECURSIVE DeptKeys(_, _)
DeptKeys(rs, n) ==
    IF n = 0 THEN <<>>
    ELSE LET ks == DeptKeys(rs, n - 1)
         IN  IF \E i \in 1..Len(ks) : ks[i] = rs[n].product_id THEN ks
             ELSE Append(ks, rs[n].product_id)

ProductTypeRows(rs, e, t) ==
    SelectSeq(rs, LAMBDA r : r.product_id = e /\ r.type_id = t)

(* Variant: only the products with rows of both measures are kept. *)
DeptData_BothMeasures(rs) ==
    SelectSeq(DeptKeys(rs, Len(rs)),
              LAMBDA e : ProductTypeRows(rs, e, "U") # <<>> /\ ProductTypeRows(rs, e, "R") # <<>>)
DeptData(rs) == DeptKeys(rs, Len(rs))

(* Lines 199-200 (255-256): the two reports of one product. *)
UnitsBreaks(rs, e, wd) == get_band_breaks_from_rows(ProductTypeRows(rs, e, "U"), wd)
RevenueBreaks(rs, e, wd) == get_band_breaks_from_rows(ProductTypeRows(rs, e, "R"), wd)

(* Lines 197-205 and 253-261: result before the sort; `key` is the name of *)
(* the id field, department_id or category_id.                             *)
ProductRecord(key, rs, e, wd) ==
    [f \in {key, "units", "revenue"} |->
        IF f = "units" THEN UnitsBreaks(rs, e, wd)
        ELSE IF f = "revenue" THEN RevenueBreaks(rs, e, wd)
        ELSE e]

ProductResult(key, rs, wd) ==
    LET ks == DeptData(rs)
    IN  [i \in 1..Len(ks) |-> ProductRecord(key, rs, ks[i], wd)]

(* Lines 207 and 263: sorted(result, key=lambda x: x[key]), a stable sort. *)
InsertById(key, s, x) ==
    LET k == Cardinality({i \in 1..Len(s) : ~StrLess(x[key], s[i][key])})
    IN  SubSeq(s, 1, k) \o <<x>> \o SubSeq(s, k + 1, Len(s))

RECURSIVE SortByIdPrefix(_, _, _)
SortByIdPrefix(key, s, n) ==
    IF n = 0 THEN <<>> ELSE InsertById(key, SortByIdPrefix(key, s, n - 1), s[n])

(* Variant: the result returned in the order the products were met. *)
SortById_Unsorted(key, s) == s
SortById(key, s) == SortByIdPrefix(key, s, Len(s))

get_departments(rs, wd) == SortById("department_id", ProductResult("department_id", rs, wd))
get_categories(rs, wd) == SortById("category_id", ProductResult("category_id", rs, wd))

InitDepts ==
    /\ db_rows \in SeqsUpTo(DeptRowSet, MaxDeptRows)
    /\ week_date = MaxDate
    /\ forecast_type = "monthly"
    /\ window_start = 0
    /\ pc \in {"departments", "categories"}
    /\ returned = <<>>
    /\ sku_rows = <<>> /\ limit = 0
    /\ bandIdle
    /\ monthIdle /\ weeksIdle /\ callsIdle

GetDepartments ==
    /\ pc = "departments"
    /\ returned' = get_departments(db_rows, week_date)
    /\ pc' = "departments_done"
    /\ UNCHANGED <<rows, week_date, sorted_rows, idx, breaks, current_upper_consec,
                   current_lower_consec, sku_rows, limit, auxVars>>

GetCategories ==
    /\ pc = "categories"
    /\ returned' = get_categories(db_rows, week_date)
    /\ pc' = "categories_done"
    /\ UNCHANGED <<rows, week_date, sorted_rows, idx, breaks, current_upper_consec,
                   current_lower_consec, sku_rows, limit, auxVars>>

NextDepts == GetDepartments \/ GetCategories

SpecDepts == InitDepts /\ [][NextDepts]_vars

DeptsDone == pc \in {"departments_done", "categories_done"}

----------------------------------------------------------------------------
(* The chart endpoints, walmart_dashboard.py lines 311-427 and 494-526 *)

MaxChartRows == 2   \* rows fetched by one chart request

(* Stored numbers of a chart row: absent, zero, or a positive number. *)
ChartValues == {None, Some(0), Some(3)}
ChartForecasts == {None, Some(0)}
BandsZeroMixed ==
    [ci85_low |-> Some(0), ci85_high |-> None, ci95_low |-> None, ci95_high |-> Some(0)]
ChartBands == {BandsNone, BandsNested, BandsZeroMixed}

MkChartRow(d, a, f, b) ==
    [date |-> d, actual |-> a, forecast |-> f,
     ci85_low |-> b.ci85_low, ci85_high |-> b.ci85_high,
     ci95_low |-> b.ci95_low, ci95_high |-> b.ci95_high]

ChartRowSet ==
    {MkChartRow(d, a, f, b) :
        d \in Dates, a \in ChartValues, f \in ChartForecasts, b \in ChartBands}

(* Python truth of an optional number: None and 0 are false. *)
Truthy(x) == x # None /\ x[1] # 0

(* float(x) keeps the number. *)
Float(x) == Some(x[1])

(* `float(x) if x is not None else None` *)
FloatOrNone(x) == IF x # None THEN Float(x) ELSE None

(* `float(r['actual']) if r['actual'] and to_date(r['date']) <= week_date *)
(* else None`                                                              *)
ChartActual(r, wd) ==
    IF Truthy(r.actual) /\ to_date(r.date) <= wd THEN Float(r.actual) ELSE None

(* One element of the list comprehension of lines 339-347. *)
ChartPoint(r, wd) ==
    [date |-> to_date(r.date),
     actual |-> ChartActual(r, wd),
     forecast |-> FloatOrNone(r.forecast),
     ci85_low |-> FloatOrNone(r.ci85_low),
     ci85_high |-> FloatOrNone(r.ci85_high),
     ci95_low |-> FloatOrNone(r.ci95_low),
     ci95_high |-> FloatOrNone(r.ci95_high)]

ChartProjection(rs, wd) == [i \in 1..Len(rs) |-> ChartPoint(rs[i], wd)]

InitChart ==
    /\ db_rows \in SeqsUpTo(ChartRowSet, MaxChartRows)
    /\ week_date \in Dates
    /\ forecast_type = "monthly"
    /\ window_start = 0
    /\ pc \in {"chart_location", "chart_department", "chart_category", "chart_sku"}
    /\ returned = <<>>
    /\ sku_rows = <<>> /\ limit = 0
    /\ bandIdle
    /\ monthIdle /\ weeksIdle /\ callsIdle

ChartReturn(endpoint) ==
    /\ pc = endpoint
    /\ returned' = ChartProjection(db_rows, week_date)
    /\ pc' = "chart_done"
    /\ UNCHANGED <<rows, week_date, sorted_rows, idx, breaks, current_upper_consec,
                   current_lower_consec, sku_rows, limit, auxVars>>

GetChartLocation == ChartReturn("chart_location")
GetChartDepartment == ChartReturn("chart_department")
GetChartCategory == ChartReturn("chart_category")
GetChartSku == ChartReturn("chart_sku")

NextChart == GetChartLocation \/ GetChartDepartment \/ GetChartCategory \/ GetChartSku

SpecChart == InitChart /\ [][NextChart]_vars

ChartDone == pc = "chart_done"

----------------------------------------------------------------------------
(* The evaluation window of the band-break endpoints, walmart_dashboard.py *)
(* lines 176-191, 220-247, 275-291, 453-466 and 537-549                    *)

MaxDay == 100       \* weeks asked for are the days 1..MaxDay

(* Dates are day numbers; timedelta(days=n) is the number n. *)
timedelta(n) == n

ForecastTypes == {"monthly", "quarterly", "weekly"}

(* `window_days = 30 if forecast_type == 'monthly' else 90` *)
WindowDays(ft) == IF ft = "monthly" THEN 30 ELSE 90

(* `window_start = week_d - timedelta(days=window_days - 1)` *)
(* Variant: the window starts window_days before the week. *)
WindowStart_FullDelta(week_d, window_days) == week_d - timedelta(window_days)
WindowStart(week_d, window_days) == week_d - timedelta(window_days - 1)

(* The table holds a row for every day from well before the first week to  *)
(* well after the last one; ORDER BY ... date returns them oldest first.   *)
TableFirstDay == 1 - 2 * WindowDays("quarterly")
TableLastDay == MaxDay + WindowDays("quarterly")
TableDates == [i \in 1..(TableLastDay - TableFirstDay + 1) |-> TableFirstDay + i - 1]

(* `WHERE date >= %s AND date <= %s` with [window_start, week_d] *)
InQueryWindow(d, ws, week_d) == d >= ws /\ d <= week_d

FetchDates(ws, week_d) == SelectSeq(TableDates, LAMBDA d : InQueryWindow(d, ws, week_d))

WindowEndpoints == {"departments", "categories", "location_summary", "skus", "sku_info"}

InitWindow ==
    /\ week_date \in 1..MaxDay
    /\ forecast_type \in ForecastTypes
    /\ window_start = 0
    /\ db_rows = <<>>
    /\ pc \in WindowEndpoints
    /\ skuIdle
    /\ bandIdle
    /\ monthIdle /\ weeksIdle /\ callsIdle

(* The window and the query of one endpoint; db_rows gets the dates of the *)
(* rows fetched.                                                           *)
Query(endpoint) ==
    /\ pc = endpoint
    /\ window_start' = WindowStart(week_date, WindowDays(forecast_type))
    /\ db_rows' = FetchDates(window_start', week_date)
    /\ pc' = "fetched"
    /\ UNCHANGED <<rows, week_date, sorted_rows, idx, breaks, current_upper_consec,
                   current_lower_consec, sku_rows, limit, returned, forecast_type,
                   ym, span, start_date, end_date, weeks_current, weeks, calls>>

QueryDepartments == Query("departments")
QueryCategories == Query("categories")
QueryLocationSummary == Query("location_summary")
QuerySkus == Query("skus")
QuerySkuInfo == Query("sku_info")

NextWindow ==
    QueryDepartments \/ QueryCategories \/ QueryLocationSummary \/ QuerySkus \/ QuerySkuInfo

SpecWindow == InitWindow /\ [][NextWindow]_vars

Fetched == pc = "fetched"

----------------------------------------------------------------------------
(* _range_from_month_span, views.py lines 46-61 *)

MaxYear == 2025     \* the months asked for lie in the three years up to MaxYear
MaxSpan == 5        \* spans asked for are -1..MaxSpan

(* "YYYY-MM" is the pair of its two numbers; a date is a record. *)
YearMonths == {<<y, m>> : y \in (MaxYear - 2)..MaxYear, m \in 1..12}
Spans == (0 - 1)..MaxSpan

date(y, m, d) == [year |-> y, month |-> m, day |-> d]

(* `y, m = ym.split("-"); return dt.date(int(y), int(m), 1)` *)
_ym_first(s) == date(s[1], s[2], 1)

(* Variant: the year is kept. *)
_add_months_SameYear(d, n) == date(d.year, ((d.month - 1 + n) % 12) + 1, 1)
_add_months(d, n) ==
    LET y == d.year + ((d.month - 1 + n) \div 12)
        m == ((d.month - 1 + n) % 12) + 1
        day == 1
    IN  date(y, m, day)

(* `span = 1 if span not in (1,2,3) else span` *)
ClampSpan(n) == IF n \notin {1, 2, 3} THEN 1 ELSE n

_range_from_month_span(s, n) ==
    LET start == _ym_first(s)
        stop == _add_months(start, ClampSpan(n))
    IN  <<start, stop>>

InitMonths ==
    /\ ym \in YearMonths
    /\ span \in Spans
    /\ pc = "range"
    /\ week_date = MaxDate
    /\ skuIdle
    /\ bandIdle
    /\ queryIdle /\ weeksIdle /\ callsIdle

RangeFromMonthSpan ==
    /\ pc = "range"
    /\ returned' = _range_from_month_span(ym, span)
    /\ pc' = "range_done"
    /\ UNCHANGED <<rows, week_date, sorted_rows, idx, breaks, current_upper_consec,
                   current_lower_consec, sku_rows, limit, auxVars>>

NextMonths == RangeFromMonthSpan

SpecMonths == InitMonths /\ [][NextMonths]_vars

RangeDone == pc = "range_done"

----------------------------------------------------------------------------
(* get_weeks_in_range, walmart_dashboard.py lines 113-135 *)

MaxWeekDay == 21    \* start_date and end_date are the days 1..MaxWeekDay

(* Day n is the n-th of January 2024; day 1 is a Monday. *)
(* datetime.weekday(): Monday is 0, Saturday 5, Sunday 6. *)
weekday(d) == (d - 1) % 7

(* strftime('%Y-%m-%d'), the string as its three numbers. *)
strftime(d) == <<2024, 1, d>>

(* Lines 126-128. *)
(* Variant: the remainder missing. *)
DaysUntilSaturday_NoMod(d) == 5 - weekday(d)
DaysUntilSaturday(d) ==
    LET days_until_saturday == (5 - weekday(d)) % 7
    IN  IF days_until_saturday = 0 /\ weekday(d) # 5 THEN 7 ELSE days_until_saturday

InitWeeks ==
    /\ start_date \in 1..MaxWeekDay
    /\ end_date \in 1..MaxWeekDay
    /\ weeks_current = 0
    /\ weeks = <<>>
    /\ pc = "weeks"
    /\ week_date = MaxDate
    /\ skuIdle
    /\ bandIdle
    /\ queryIdle /\ monthIdle /\ callsIdle

(* Lines 115-129: weeks = [] and the first Saturday. *)
FirstSaturday ==
    /\ pc = "weeks"
    /\ weeks' = <<>>
    /\ weeks_current' = start_date + timedelta(DaysUntilSaturday(start_date))
    /\ pc' = "weeks_loop"
    /\ UNCHANGED <<rows, week_date, sorted_rows, idx, breaks, current_upper_consec,
                   current_lower_consec, sku_rows, limit, returned, db_rows, forecast_type,
                   window_start, ym, span, start_date, end_date, calls>>

(* Lines 131-133: one turn of the while loop. *)
AppendWeek ==
    /\ pc = "weeks_loop"
    /\ weeks_current <= end_date
    /\ weeks' = Append(weeks, strftime(weeks_current))
    /\ weeks_current' = weeks_current + timedelta(7)
    /\ UNCHANGED <<rows, week_date, pc, sorted_rows, idx, breaks, current_upper_consec,
                   current_lower_consec, sku_rows, limit, returned, db_rows, forecast_type,
                   window_start, ym, span, start_date, end_date, calls>>

(* Line 135. *)
ReturnWeeks ==
    /\ pc = "weeks_loop"
    /\ ~(weeks_current <= end_date)
    /\ returned' = weeks
    /\ pc' = "weeks_done"
    /\ UNCHANGED <<rows, week_date, sorted_rows, idx, breaks, current_upper_consec,
                   current_lower_consec, sku_rows, limit, auxVars>>

NextWeeks == FirstSaturday \/ AppendWeek \/ ReturnWeeks

SpecWeeks == InitWeeks /\ [][NextWeeks]_vars

WeeksDone == pc = "weeks_done"

----------------------------------------------------------------------------
(* get_location_summary, walmart_dashboard.py lines 266-308 *)

MaxSummaryRows == 3     \* rows fetched by one location-summary request

SummaryValues == {None, Some(1), Some(5)}
SummaryBands == {BandsNone, BandsNested}

MkSummaryRow(t, d, v, b) ==
    [type_id |-> t, date |-> d, value |-> v,
     ci85_low |-> b.ci85_low, ci85_high |-> b.ci85_high,
     ci95_low |-> b.ci95_low, ci95_high |-> b.ci95_high]

SummaryRowSet ==
    {MkSummaryRow(t, d, v, b) :
        t \in TypeIds, d \in DeptDates, v \in SummaryValues, b \in SummaryBands}

(* Lines 293-295: type_rows[row['type_id']].append(dict(row)) *)
SummaryTypeRows(rs, t) == SelectSeq(rs, LAMBDA r : r.type_id = t)

(* `r.get('value', 0) or 0` *)
ValueOrZero(r) == IF Truthy(r.value) THEN r.value[1] ELSE 0

RECURSIVE SumValues(_)
SumValues(rs) ==
    IF rs = <<>> THEN 0 ELSE ValueOrZero(Head(rs)) + SumValues(Tail(rs))

(* Line 300. *)
(* Variant: the rows of both measures summed. *)
TotalRevenue_AllTypes(rs) == SumValues(rs)
TotalRevenue(rs) == SumValues(SummaryTypeRows(rs, "R"))

(* `{**revenue_breaks, 'total': total_revenue}` *)
WithTotal(report, total) ==
    [f \in (DOMAIN report) \cup {"total"} |-> IF f = "total" THEN total ELSE report[f]]

get_location_summary(rs, wd) ==
    LET units_breaks == get_band_breaks_from_rows(SummaryTypeRows(rs, "U"), wd)
        revenue_breaks == get_band_breaks_from_rows(SummaryTypeRows(rs, "R"), wd)
        total_revenue == TotalRevenue(rs)
    IN  [units |-> units_breaks, revenue |-> WithTotal(revenue_breaks, total_revenue)]

InitSummary ==
    /\ db_rows \in SeqsUpTo(SummaryRowSet, MaxSummaryRows)
    /\ week_date = MaxDate
    /\ forecast_type = "monthly"
    /\ window_start = 0
    /\ pc = "location_summary"
    /\ skuIdle
    /\ bandIdle
    /\ monthIdle /\ weeksIdle /\ callsIdle

GetLocationSummary ==
    /\ pc = "location_summary"
    /\ returned' = get_location_summary(db_rows, week_date)
    /\ pc' = "summary_done"
    /\ UNCHANGED <<rows, week_date, sorted_rows, idx, breaks, current_upper_consec,
                   current_lower_consec, sku_rows, limit, auxVars>>

NextSummary == GetLocationSummary

SpecSummary == InitSummary /\ [][NextSummary]_vars

SummaryDone == pc = "summary_done"

----------------------------------------------------------------------------
(* Concurrent calls of get_band_breaks, walmart_dashboard.py lines 55-106. *)
(* The endpoints are plain `def` handlers, which the server runs on worker *)
(* threads; every name get_band_breaks assigns is a local of the call.     *)

MaxCallRows == 2    \* rows passed to one of the concurrent calls

Requests == {1, 2}

CallValues == {Some(1), Some(5)}
CallRowSet == {MkRow(d, v, BandsNested) : d \in DeptDates, v \in CallValues}

(* The frame of a call: its two arguments and its locals. *)
NewCall(rs, wd) ==
    [rows |-> rs, week_date |-> wd, pc |-> "start", sorted_rows |-> <<>>, idx |-> 0,
     breaks |-> ZeroBreaks, current_upper_consec |-> 0, current_lower_consec |-> 0]

CallAcc(c) ==
    [breaks |-> c.breaks, current_upper_consec |-> c.current_upper_consec,
     current_lower_consec |-> c.current_lower_consec]

(* The assignments to breaks and the two streaks go to the frame of the    *)
(* call that makes them.                                                   *)
(* Variant: breaks and the streaks are module-level, one for all calls. *)
WriteLocals_Shared(cs, r, a) ==
    [q \in DOMAIN cs |->
        [cs[q] EXCEPT !.breaks = a.breaks,
                      !.current_upper_consec = a.current_upper_consec,
                      !.current_lower_consec = a.current_lower_consec]]
WriteLocals(cs, r, a) ==
    [cs EXCEPT ![r] = [@ EXCEPT !.breaks = a.breaks,
                                !.current_upper_consec = a.current_upper_consec,
                                !.current_lower_consec = a.current_lower_consec]]

InitCalls ==
    /\ calls \in [Requests ->
                    {NewCall(rs, wd) : rs \in SeqsUpTo(CallRowSet, MaxCallRows),
                                       wd \in DeptDates}]
    /\ pc = "calls"
    /\ week_date = MaxDate
    /\ skuIdle
    /\ bandIdle
    /\ queryIdle /\ monthIdle /\ weeksIdle

callsUnchanged ==
    UNCHANGED <<rows, week_date, pc, sorted_rows, idx, breaks, current_upper_consec,
                current_lower_consec, sku_rows, limit, returned, db_rows, forecast_type,
                window_start, ym, span, start_date, end_date, weeks_current, weeks>>

(* Lines 57-67 of call r: the zeroed dict and streaks, the sorted copy. *)
CallFilterSort(r) ==
    /\ calls[r].pc = "start"
    /\ calls' = [WriteLocals(calls, r, ZeroAcc) EXCEPT
                    ![r].sorted_rows = SortedRows(calls[r].rows, calls[r].week_date),
                    ![r].idx = 1,
                    ![r].pc = "loop"]
    /\ callsUnchanged

(* Lines 69-99 of call r, one row. *)
CallIterate(r) ==
    /\ calls[r].pc = "loop"
    /\ calls[r].idx <= Len(calls[r].sorted_rows)
    /\ calls' = [WriteLocals(calls, r,
                             LoopBody(CallAcc(calls[r]), calls[r].sorted_rows[calls[r].idx]))
                    EXCEPT ![r].idx = @ + 1]
    /\ callsUnchanged

(* Line 101 of call r. *)
CallReturn(r) ==
    /\ calls[r].pc = "loop"
    /\ calls[r].idx > Len(calls[r].sorted_rows)
    /\ calls' = [calls EXCEPT ![r].pc = "done"]
    /\ callsUnchanged

NextCalls == \E r \in Requests : CallFilterSort(r) \/ CallIterate(r) \/ CallReturn(r)

SpecCalls == InitCalls /\ [][NextCalls]_vars

----------------------------------------------------------------------------
(* Properties of get_band_breaks *)

InsertAt(s, p, r) == SubSeq(s, 1, p) \o <<r>> \o SubSeq(s, p + 1, Len(s))

HasActual(p) == p.value # None
OverHigh85(p) == p.ci85_high # None /\ p.value[1] > p.ci85_high[1]
UnderLow85(p) == p.ci85_low # None /\ p.value[1] < p.ci85_low[1]

(* The rows the loop has gone through so far, and those of them with an    *)
(* actual: the evaluated points, in the order of the pass.                 *)
Processed == IF pc = "start" THEN <<>> ELSE SubSeq(sorted_rows, 1, idx - 1)
EvaluatedSoFar == SelectSeq(Processed, HasActual)

(* The length of the longest run of consecutive points of s satisfying P.  *)
LongestRun(s, P(_)) ==
    LET lens == {0} \cup {j - i + 1 : i \in 1..Len(s), j \in 1..Len(s)}
        isRun(n) == n = 0 \/ \E i \in 1..(Len(s) - n + 1) : \A k \in i..(i + n - 1) : P(s[k])
    IN  CHOOSE n \in lens : isRun(n) /\ \A m \in lens : isRun(m) => m <= n

(* The length of the run of points satisfying P that ends s. *)
TrailingRun(s, P(_)) ==
    LET isTail(n) == \A k \in (Len(s) - n + 1)..Len(s) : P(s[k])
    IN  CHOOSE n \in 0..Len(s) : isTail(n) /\ \A m \in 0..Len(s) : isTail(m) => m <= n

CountOf(s, P(_)) == Cardinality({i \in 1..Len(s) : P(s[i])})

(* C1: at every point of the pass, and so in the returned report,           *)
(* upper_85_consec is the length of the longest run of consecutive          *)
(* evaluated points (date <= reference, actual present, in the order of the *)
(* sorted pass) that have ci85_high present and actual > ci85_high, and the *)
(* running upper streak is the run ending at the last evaluated point, so   *)
(* it is 0 after an evaluated point that does not breach (one without       *)
(* ci85_high included); lower_85_consec and the running lower streak are    *)
(* the same for ci85_low and actual < ci85_low, whatever the upper breaches *)
(* are; upper_85 and lower_85 count the breaching points.                   *)
C1_LongestStreak ==
    /\ breaks.upper_85_consec = LongestRun(EvaluatedSoFar, OverHigh85)
    /\ current_upper_consec = TrailingRun(EvaluatedSoFar, OverHigh85)
    /\ breaks.upper_85 = CountOf(EvaluatedSoFar, OverHigh85)
    /\ breaks.lower_85_consec = LongestRun(EvaluatedSoFar, UnderLow85)
    /\ current_lower_consec = TrailingRun(EvaluatedSoFar, UnderLow85)
    /\ breaks.lower_85 = CountOf(EvaluatedSoFar, UnderLow85)

(* The spec's scenario: three evaluated points, the first and the third     *)
(* over ci85_high, the second not: two upper breaches, longest run 1.       *)
C1_Witness ==
    /\ Done
    /\ Len(EvaluatedSoFar) = 3
    /\ OverHigh85(EvaluatedSoFar[1])
    /\ ~OverHigh85(EvaluatedSoFar[2])
    /\ OverHigh85(EvaluatedSoFar[3])
    /\ breaks.upper_85 = 2
    /\ breaks.upper_85_consec = 1

AbsentRows == {r \in RowSet : r.value = None}

(* C2: a row without an actual is skipped: the report of the finished call  *)
(* is the report of the same rows with one more absent-actual row, of any   *)
(* date and any bounds, inserted at any place (and so with any number of    *)
(* them), and total_days counts only the rows with an actual.               *)
C2_AbsentActualSkipped ==
    Done =>
      /\ \A r \in AbsentRows : \A p \in 0..Len(rows) :
            get_band_breaks(InsertAt(rows, p, r), week_date) = breaks
      /\ breaks = get_band_breaks(SelectSeq(rows, HasActual), week_date)
      /\ breaks.total_days = CountOf(sorted_rows, HasActual)

(* Two breaching days with only an absent-actual day between them: one      *)
(* streak of length 2.                                                      *)
C2_Witness ==
    /\ Done
    /\ Len(sorted_rows) = 3
    /\ HasActual(sorted_rows[1]) /\ OverHigh85(sorted_rows[1])
    /\ ~HasActual(sorted_rows[2])
    /\ HasActual(sorted_rows[3]) /\ OverHigh85(sorted_rows[3])
    /\ sorted_rows[1].date < sorted_rows[2].date
    /\ sorted_rows[2].date < sorted_rows[3].date
    /\ breaks.upper_85_consec = 2
    /\ breaks.total_days = 2

PastRows == SelectSeq(rows, LAMBDA r : r.date <= week_date)

(* C3: rows dated after the reference date never influence the report: it   *)
(* is the report of the rows dated on or before the reference date alone    *)
(* (so adding, removing or changing later rows changes nothing), and a row  *)
(* dated on the reference date is evaluated: total_days counts every row    *)
(* with an actual dated on or before it.                                    *)
C3_FutureRowsExcluded ==
    Done =>
      /\ breaks = get_band_breaks(PastRows, week_date)
      /\ \A r \in RowSet : \A p \in {0, Len(rows)} :
            r.date > week_date => get_band_breaks(InsertAt(rows, p, r), week_date) = breaks
      /\ breaks.total_days = CountOf(PastRows, HasActual)

(* A breaching row after the reference date is not counted, a breaching row *)
(* on the reference date is.                                                *)
C3_Witness ==
    /\ Done
    /\ \E i \in 1..Len(rows) : rows[i].date > week_date /\ HasActual(rows[i]) /\ OverHigh85(rows[i])
    /\ \E i \in 1..Len(rows) : rows[i].date = week_date /\ HasActual(rows[i]) /\ OverHigh85(rows[i])
    /\ breaks.upper_85 = 1
    /\ breaks.total_days = 1

PermutationsOf(s) ==
    LET n == Len(s)
        bij == {f \in [1..n -> 1..n] : \A i \in 1..n : \A j \in 1..n : f[i] = f[j] => i = j}
    IN  {[i \in 1..n |-> s[f[i]]] : f \in bij}

UniqueDates(s) == \A i \in 1..Len(s) : \A j \in 1..Len(s) : s[i].date = s[j].date => i = j

(* C4 as claimed: the report is the same for every permutation of the       *)
(* input rows.                                                              *)
C4_AnyShuffle ==
    Done => \A q \in PermutationsOf(rows) : get_band_breaks(q, week_date) = breaks

(* C4 as amended: the report is the same for every permutation of the input *)
(* rows when no two rows of the series share a date.                        *)
C4_ShuffleUniqueDates ==
    (Done /\ UniqueDates(rows)) =>
        \A q \in PermutationsOf(rows) : get_band_breaks(q, week_date) = breaks

(* Three rows of different dates supplied out of date order, with a streak. *)
C4_Witness ==
    /\ Done
    /\ Len(rows) = 3
    /\ UniqueDates(rows)
    /\ rows[1].date > rows[2].date
    /\ rows # sorted_rows
    /\ breaks.upper_85_consec = 2
    /\ breaks.upper_85 = 2
    /\ breaks.total_days = 3

Inside85(p) ==
    /\ p.ci85_low # None /\ p.ci85_high # None
    /\ p.ci85_low[1] < p.value[1] /\ p.value[1] < p.ci85_high[1]
Within95(p) ==
    /\ p.ci95_low # None => p.ci95_low[1] <= p.value[1]
    /\ p.ci95_high # None => p.value[1] <= p.ci95_high[1]

AllZeroCounts ==
    /\ breaks.upper_85 = 0 /\ breaks.upper_95 = 0
    /\ breaks.lower_85 = 0 /\ breaks.lower_95 = 0
    /\ breaks.upper_85_consec = 0 /\ breaks.lower_85_consec = 0

(* C5 as claimed: when every actual lies strictly between its 85% bounds,   *)
(* the four counts and both streaks are 0 and total_days is the number of   *)
(* rows of the series with an actual.                                       *)
C5_InsideBand ==
    (Done /\ \A i \in 1..Len(rows) : HasActual(rows[i]) => Inside85(rows[i])) =>
        /\ AllZeroCounts
        /\ breaks.total_days = CountOf(rows, HasActual)

(* C5 as amended: when every actual lies strictly between its 85% bounds    *)
(* and not outside a 95% bound that is present, the four counts and both    *)
(* streaks are 0 and total_days is the number of rows with an actual dated  *)
(* on or before the reference date.                                         *)
C5_InsideBandAmended ==
    (Done /\ \A i \in 1..Len(rows) :
                HasActual(rows[i]) => (Inside85(rows[i]) /\ Within95(rows[i]))) =>
        /\ AllZeroCounts
        /\ breaks.total_days = CountOf(PastRows, HasActual)

C5_Witness ==
    /\ Done
    /\ Len(rows) = 3
    /\ \A i \in 1..Len(rows) : HasActual(rows[i]) => (Inside85(rows[i]) /\ Within95(rows[i]))
    /\ \E i \in 1..Len(rows) : ~HasActual(rows[i])
    /\ \E i \in 1..Len(rows) : rows[i].date > week_date /\ HasActual(rows[i])
    /\ breaks.total_days = 1

(* C6: in every state of the pass and in the returned report, each 85%      *)
(* streak (the longest and the running one) is at most the count of the     *)
(* same side, and the longest streak is 0 exactly when that count is 0.     *)
C6_StreakAtMostCount ==
    /\ breaks.upper_85_consec <= breaks.upper_85
    /\ breaks.lower_85_consec <= breaks.lower_85
    /\ current_upper_consec <= breaks.upper_85
    /\ current_lower_consec <= breaks.lower_85
    /\ ((breaks.upper_85_consec = 0) <=> (breaks.upper_85 = 0))
    /\ ((breaks.lower_85_consec = 0) <=> (breaks.lower_85 = 0))

(* During the pass, before the return: two upper breaches so far with a     *)
(* lower breach between them, longest upper run 1.                          *)
C6_Witness ==
    /\ pc = "loop"
    /\ breaks.upper_85 = 2
    /\ breaks.upper_85_consec = 1
    /\ current_upper_consec = 1
    /\ breaks.lower_85 = 1
    /\ current_lower_consec = 0

OlderThanAll(r, s) == \A i \in 1..Len(s) : r.date < s[i].date

AtLeast(b2, b1) ==
    /\ b2.upper_85 >= b1.upper_85 /\ b2.upper_95 >= b1.upper_95
    /\ b2.lower_85 >= b1.lower_85 /\ b2.lower_95 >= b1.lower_95
    /\ b2.upper_85_consec >= b1.upper_85_consec
    /\ b2.lower_85_consec >= b1.lower_85_consec
    /\ b2.total_days >= b1.total_days

(* C7: with the reference date fixed, the report of the rows with one more  *)
(* row prepended that is older than every row of the series (and so, one at *)
(* a time, with any number of them) has no streak, count or total_days      *)
(* smaller than the report of the rows as they are.                         *)
C7_MoreHistoryMonotone ==
    Done => \A r \in RowSet :
              OlderThanAll(r, rows) =>
                  AtLeast(get_band_breaks(<<r>> \o rows, week_date), breaks)

(* An older breaching row lengthens the streak the series starts with. *)
C7_Witness ==
    /\ Done
    /\ Len(rows) = 2
    /\ UniqueDates(rows)
    /\ breaks.upper_85_consec = 2
    /\ breaks.upper_85 = 2
    /\ \E r \in RowSet :
          /\ OlderThanAll(r, rows)
          /\ get_band_breaks(<<r>> \o rows, week_date).upper_85_consec = 3
          /\ get_band_breaks(<<r>> \o rows, week_date).total_days = 3

----------------------------------------------------------------------------
(* Properties of get_skus *)

ScoreOf(x) == x.units.upper_85 + x.units.lower_85 + x.revenue.lower_85

(* The place of the first fetched row of a sku. *)
FirstSeen(sku) ==
    CHOOSE i \in 1..Len(sku_rows) :
        /\ sku_rows[i].sku_id = sku
        /\ \A j \in 1..(i - 1) : sku_rows[j].sku_id # sku

RowsOf(sku, t) ==
    SelectSeq(sku_rows, LAMBDA r : r.sku_id = sku /\ r.type_id = t)

SkusFetched == {sku_rows[i].sku_id : i \in 1..Len(sku_rows)}

(* C8: every returned record carries the band breaks of its sku's U and R   *)
(* rows, and the records are ordered by the score units.upper_85 +          *)
(* units.lower_85 + revenue.lower_85 (revenue.upper_85 not counted): of two *)
(* returned records the earlier has the larger score, or the same score and *)
(* a sku first met earlier in the fetched rows.                             *)
C8_RankedByScore ==
    SkusDone =>
      /\ \A i \in 1..Len(returned) :
            /\ returned[i].units = get_band_breaks(RowsOf(returned[i].sku_id, "U"), week_date)
            /\ returned[i].revenue = get_band_breaks(RowsOf(returned[i].sku_id, "R"), week_date)
      /\ \A i \in 1..Len(returned) : \A j \in 1..Len(returned) :
            i < j =>
              \/ ScoreOf(returned[i]) > ScoreOf(returned[j])
              \/ /\ ScoreOf(returned[i]) = ScoreOf(returned[j])
                 /\ FirstSeen(returned[i].sku_id) < FirstSeen(returned[j].sku_id)

(* Three skus of scores 2, 1 and 0 returned in that order, the best one met *)
(* last, the last one with the only revenue upper breach.                   *)
C8_Witness ==
    /\ SkusDone
    /\ Len(returned) = 3
    /\ ScoreOf(returned[1]) = 2 /\ ScoreOf(returned[2]) = 1 /\ ScoreOf(returned[3]) = 0
    /\ FirstSeen(returned[1].sku_id) = 3
    /\ returned[3].revenue.upper_85 = 1
    /\ returned[1].revenue.upper_85 = 0

(* The ranked list before truncation: one record per sku fetched, ordered   *)
(* by descending score and then by first encounter.                         *)
RankedBefore(a, b) ==
    LET ra == [units |-> get_band_breaks(RowsOf(a, "U"), week_date),
               revenue |-> get_band_breaks(RowsOf(a, "R"), week_date)]
        rb == [units |-> get_band_breaks(RowsOf(b, "U"), week_date),
               revenue |-> get_band_breaks(RowsOf(b, "R"), week_date)]
    IN  \/ ScoreOf(ra) > ScoreOf(rb)
        \/ ScoreOf(ra) = ScoreOf(rb) /\ FirstSeen(a) < FirstSeen(b)

RankOf(sku) == 1 + Cardinality({o \in SkusFetched : RankedBefore(o, sku)})

(* C9: the returned list is the prefix of the ranked list of length         *)
(* min(limit, n), n the number of skus fetched (no record at all for a      *)
(* limit under 0): never more than `limit` records, and the i-th returned   *)
(* record is the sku of rank i.                                             *)
C9_TruncatedToLimit ==
    SkusDone =>
      /\ Len(returned) = Max(0, Min(limit, Cardinality(SkusFetched)))
      /\ \A i \in 1..Len(returned) : RankOf(returned[i].sku_id) = i

(* C9 for the limits that are not negative. *)
C9_TruncatedNonNegative ==
    (SkusDone /\ limit >= 0) =>
      /\ Len(returned) = Min(limit, Cardinality(SkusFetched))
      /\ \A i \in 1..Len(returned) : RankOf(returned[i].sku_id) = i

ReportFields ==
    {"upper_85", "upper_95", "lower_85", "lower_95",
     "upper_85_consec", "lower_85_consec", "total_days"}

(* C10: every record get_skus returns has exactly the fields sku_id, units  *)
(* and revenue, the ranking score _total_breaks is in none of them, and the *)
(* units and revenue reports have exactly the seven report fields.          *)
C10_NoScoreReturned ==
    SkusDone =>
      \A i \in 1..Len(returned) :
        /\ DOMAIN returned[i] = {"sku_id", "units", "revenue"}
        /\ DOMAIN returned[i].units = ReportFields
        /\ DOMAIN returned[i].revenue = ReportFields

(* Three skus ranked by a positive score and truncated to two records. *)
C10_Witness ==
    /\ SkusDone
    /\ Cardinality(SkusFetched) = 3
    /\ limit = 2
    /\ Len(returned) = 2
    /\ ScoreOf(returned[1]) = 2
    /\ ScoreOf(returned[2]) = 1

----------------------------------------------------------------------------
(* Properties of get_departments and get_categories *)

IdField == IF pc = "departments_done" THEN "department_id" ELSE "category_id"

ProductsFetched == {db_rows[i].product_id : i \in 1..Len(db_rows)}

(* Lexicographic order of two strings, by the first place where they       *)
(* differ.                                                                 *)
LexBefore(a, b) ==
    \/ /\ Len(a) < Len(b)
       /\ \A i \in 1..Len(a) : a[i] = b[i]
    \/ \E k \in 1..Min(Len(a), Len(b)) :
          /\ \A i \in 1..(k - 1) : a[i] = b[i]
          /\ a[k] < b[k]

(* C11: the departments and the categories request return exactly one       *)
(* record per product_id present in the fetched rows, in ascending          *)
(* lexicographic order of the id, whatever the order of the rows.           *)
C11_OnePerEntitySorted ==
    DeptsDone =>
      /\ Len(returned) = Cardinality(ProductsFetched)
      /\ {returned[i][IdField] : i \in 1..Len(returned)} = ProductsFetched
      /\ \A i \in 1..Len(returned) : \A j \in 1..Len(returned) :
            i < j => LexBefore(returned[i][IdField], returned[j][IdField])

(* Rows met in the order "2", "10", "1" are returned as "1", "10", "2". *)
C11_Witness ==
    /\ DeptsDone
    /\ Len(db_rows) = 3
    /\ db_rows[1].product_id = <<2>>
    /\ db_rows[2].product_id = <<1, 0>>
    /\ db_rows[3].product_id = <<1>>
    /\ Len(returned) = 3
    /\ returned[1][IdField] = <<1>>
    /\ returned[2][IdField] = <<1, 0>>
    /\ returned[3][IdField] = <<2>>

AllZeroReport ==
    [upper_85 |-> 0, upper_95 |-> 0, lower_85 |-> 0, lower_95 |-> 0,
     upper_85_consec |-> 0, lower_85_consec |-> 0, total_days |-> 0]

NoActual(e, t) ==
    \A i \in 1..Len(db_rows) :
        (db_rows[i].product_id = e /\ db_rows[i].type_id = t) => db_rows[i].value = None

RecordOf(e) == CHOOSE x \in {returned[i] : i \in 1..Len(returned)} : x[IdField] = e

(* C12: every product with a row of either measure has a record, and the    *)
(* report of a measure for which the product has no row, or only rows       *)
(* without an actual, has all seven fields 0.                               *)
C12_MissingMeasureAllZero ==
    DeptsDone =>
      \A e \in ProductsFetched :
        /\ \E i \in 1..Len(returned) : returned[i][IdField] = e
        /\ NoActual(e, "U") => RecordOf(e).units = AllZeroReport
        /\ NoActual(e, "R") => RecordOf(e).revenue = AllZeroReport

(* A product with units rows only, another with revenue rows without an     *)
(* actual only.                                                             *)
C12_Witness ==
    /\ DeptsDone
    /\ Len(returned) = 2
    /\ \E e \in ProductsFetched :
          /\ \A i \in 1..Len(db_rows) : db_rows[i].product_id = e => db_rows[i].type_id = "U"
          /\ RecordOf(e).units.upper_85 = 2
          /\ RecordOf(e).revenue = AllZeroReport
    /\ \E e \in ProductsFetched :
          /\ \A i \in 1..Len(db_rows) : db_rows[i].product_id = e => db_rows[i].type_id = "R"
          /\ NoActual(e, "R")
          /\ RecordOf(e).units = AllZeroReport
          /\ RecordOf(e).revenue = AllZeroReport

----------------------------------------------------------------------------
(* Properties of the chart endpoints *)

OptionalFields == {"forecast", "ci85_low", "ci85_high", "ci95_low", "ci95_high"}

(* C13: in every chart projection the actual of a point is null if and     *)
(* only if the stored actual is absent or the date of the point is after   *)
(* the reference date, so a present actual, 0 included, on a date up to    *)
(* the reference date is returned as a number; forecast and the four       *)
(* bounds are null exactly when absent, whatever the date.                 *)
C13_ActualNullIffAbsentOrFuture ==
    ChartDone =>
      /\ Len(returned) = Len(db_rows)
      /\ \A i \in 1..Len(returned) :
            /\ (returned[i].actual = None)
                  <=> (db_rows[i].actual = None \/ db_rows[i].date > week_date)
            /\ \A f \in OptionalFields : (returned[i][f] = None) <=> (db_rows[i][f] = None)

(* What the projection does: a stored actual of 0 is null as well. *)
C13_ActualNullIffFalsyOrFuture ==
    ChartDone =>
      /\ Len(returned) = Len(db_rows)
      /\ \A i \in 1..Len(returned) :
            /\ (returned[i].actual = None)
                  <=> \/ db_rows[i].actual = None
                      \/ db_rows[i].actual = Some(0)
                      \/ db_rows[i].date > week_date
            /\ returned[i].actual # None => returned[i].actual = db_rows[i].actual
            /\ \A f \in OptionalFields : returned[i][f] = db_rows[i][f]

----------------------------------------------------------------------------
(* Properties of the evaluation window *)

DatesFetched == {db_rows[i] : i \in 1..Len(db_rows)}

(* C14: the window of every band-break endpoint is the inclusive range     *)
(* from window_start to the reference date, window_start being the         *)
(* reference date minus 29 days for the monthly cadence and minus 89 days  *)
(* for any other, so it holds exactly 30 / 90 calendar dates, the          *)
(* reference date among them.                                              *)
C14_WindowLength ==
    Fetched =>
      /\ forecast_type = "monthly" => window_start = week_date - 29
      /\ forecast_type # "monthly" => window_start = week_date - 89
      /\ \A i \in 1..Len(TableDates) :
            TableDates[i] \in DatesFetched
               <=> (window_start <= TableDates[i] /\ TableDates[i] <= week_date)
      /\ Len(db_rows) = Cardinality(DatesFetched)
      /\ Cardinality(DatesFetched) = (IF forecast_type = "monthly" THEN 30 ELSE 90)
      /\ week_date \in DatesFetched

(* A quarterly request for day 95 fetches the 90 days 6..95, a monthly one *)
(* the 30 days 66..95.                                                     *)
C14_Witness ==
    /\ Fetched
    /\ week_date = 95
    /\ \/ /\ forecast_type = "quarterly"
          /\ window_start = 6
          /\ Len(db_rows) = 90
          /\ db_rows[1] = 6
       \/ /\ forecast_type = "monthly"
          /\ window_start = 66
          /\ Len(db_rows) = 30
          /\ db_rows[1] = 66
    /\ db_rows[Len(db_rows)] = 95

----------------------------------------------------------------------------
(* Properties of _range_from_month_span *)

(* Months counted from year 0. *)
MonthIndex(d) == 12 * d.year + (d.month - 1)

DateBefore(a, b) ==
    \/ a.year < b.year
    \/ a.year = b.year /\ a.month < b.month
    \/ a.year = b.year /\ a.month = b.month /\ a.day < b.day

EffectiveSpan == IF span = 1 \/ span = 2 \/ span = 3 THEN span ELSE 1

(* C15: _range_from_month_span returns start, the first day of the month   *)
(* asked for, and stop, the first day of the month exactly `effective      *)
(* span` months later, the effective span being span when it is 1, 2 or 3  *)
(* and 1 otherwise; the year rolls over (2024-11 with span 3 stops at      *)
(* 2025-02-01, 2024-02 with span 1 at 2024-03-01), and start < stop.       *)
C15_MonthSpanRange ==
    RangeDone =>
      LET start == returned[1]
          stop == returned[2]
      IN  /\ start = [year |-> ym[1], month |-> ym[2], day |-> 1]
          /\ stop.day = 1
          /\ stop.month \in 1..12
          /\ MonthIndex(stop) = MonthIndex(start) + EffectiveSpan
          /\ DateBefore(start, stop)
          /\ (ym = <<2024, 11>> /\ span = 3) => stop = [year |-> 2025, month |-> 2, day |-> 1]
          /\ (ym = <<2024, 2>> /\ span = 1) => stop = [year |-> 2024, month |-> 3, day |-> 1]

(* December with a span out of range: one month on, into the next year. *)
C15_Witness ==
    /\ RangeDone
    /\ ym = <<2024, 12>>
    /\ span \in {0 - 1, 0, 4}
    /\ returned[1] = [year |-> 2024, month |-> 12, day |-> 1]
    /\ returned[2] = [year |-> 2025, month |-> 1, day |-> 1]

----------------------------------------------------------------------------
(* Properties of get_weeks_in_range *)

(* The Saturdays of January 2024 are the 6th, 13th, 20th and 27th. *)
IsSaturday(d) == d \in {6, 13, 20, 27}

SaturdaysInRange == {d \in start_date..end_date : IsSaturday(d)}

(* C16: get_weeks_in_range returns, ascending and without duplicates,      *)
(* exactly the Saturdays from start_date to end_date: the first is the     *)
(* first Saturday on or after start_date, consecutive ones are 7 days      *)
(* apart, none is after end_date, and there is none when the range holds   *)
(* no Saturday (1 to 20 January 2024 gives the 6th, 13th and 20th).        *)
C16_SaturdaysInRange ==
    WeeksDone =>
      /\ {returned[i] : i \in 1..Len(returned)}
            = {<<2024, 1, d>> : d \in SaturdaysInRange}
      /\ Len(returned) = Cardinality(SaturdaysInRange)
      /\ \A i \in 1..(Len(returned) - 1) : returned[i + 1][3] = returned[i][3] + 7
      /\ returned # <<>> =>
            /\ returned[1][3] >= start_date
            /\ \A d \in start_date..(returned[1][3] - 1) : ~IsSaturday(d)
            /\ returned[Len(returned)][3] <= end_date
      /\ (start_date = 1 /\ end_date = 20)
            => returned = << <<2024, 1, 6>>, <<2024, 1, 13>>, <<2024, 1, 20>> >>
      /\ start_date > end_date => returned = <<>>

(* From a Sunday and from a Saturday: Sunday the 7th to the 20th gives two *)
(* weeks, Saturday the 6th to the 19th gives two as well.                  *)
C16_Witness ==
    /\ WeeksDone
    /\ \/ /\ start_date = 7 /\ end_date = 20
          /\ returned = << <<2024, 1, 13>>, <<2024, 1, 20>> >>
       \/ /\ start_date = 6 /\ end_date = 19
          /\ returned = << <<2024, 1, 6>>, <<2024, 1, 13>> >>

----------------------------------------------------------------------------
(* Properties of get_location_summary *)

(* The sum of the actuals of the revenue rows among the first n rows       *)
(* fetched, a row without an actual adding nothing.                        *)
RECURSIVE RevenueActuals(_)
RevenueActuals(n) ==
    IF n = 0 THEN 0
    ELSE RevenueActuals(n - 1)
           + (IF db_rows[n].type_id = "R" /\ db_rows[n].value # None
              THEN db_rows[n].value[1] ELSE 0)

SevenFields ==
    {"upper_85", "upper_95", "lower_85", "lower_95",
     "upper_85_consec", "lower_85_consec", "total_days"}

(* C17: revenue.total of the location summary is the sum of the actuals of *)
(* the revenue rows of the window, absent actuals counting 0, whatever the *)
(* units rows and the bounds are, and the seven fields of the revenue      *)
(* report come with it unchanged.                                          *)
C17_RevenueTotal ==
    SummaryDone =>
      /\ returned.revenue.total = RevenueActuals(Len(db_rows))
      /\ DOMAIN returned.revenue = SevenFields \cup {"total"}
      /\ \A f \in SevenFields :
            returned.revenue[f]
               = get_band_breaks(SelectSeq(db_rows, LAMBDA r : r.type_id = "R"), week_date)[f]
      /\ DOMAIN returned.units = SevenFields

(* A units row with an actual, two revenue rows: one without an actual,    *)
(* one of 5 over its band.                                                 *)
C17_Witness ==
    /\ SummaryDone
    /\ Len(db_rows) = 3
    /\ \E i \in 1..3 : db_rows[i].type_id = "U" /\ db_rows[i].value = Some(5)
    /\ \E i \in 1..3 : db_rows[i].type_id = "R" /\ db_rows[i].value = None
    /\ returned.revenue.total = 5
    /\ returned.revenue.upper_85 = 1
    /\ returned.revenue.total_days = 1

----------------------------------------------------------------------------
(* Bounds of the counts of get_band_breaks *)

(* C18: in every state of the pass of get_band_breaks, the returned report *)
(* included, each of upper_85, upper_95, lower_85 and lower_95 is between  *)
(* 0 and total_days, a count growing by at most one per counted day, also  *)
(* when a day has ci85_high < ci85_low and counts as an upper and a lower  *)
(* breach at once.                                                         *)
C18_CountsWithinTotalDays ==
    \A f \in {"upper_85", "upper_95", "lower_85", "lower_95"} :
        0 <= breaks[f] /\ breaks[f] <= breaks.total_days

(* In the loop, after one counted day with ci85_high < ci85_low that is    *)
(* both over the upper and under the lower bound.                          *)
C18_Witness ==
    /\ pc = "loop"
    /\ idx = 2
    /\ Len(sorted_rows) >= 1
    /\ sorted_rows[1].ci85_high # None
    /\ sorted_rows[1].ci85_low # None
    /\ sorted_rows[1].ci85_high[1] < sorted_rows[1].ci85_low[1]
    /\ breaks.total_days = 1
    /\ breaks.upper_85 = 1
    /\ breaks.lower_85 = 1

----------------------------------------------------------------------------
(* Properties of concurrent calls *)

(* The step leaves the arguments of every call as they were. *)
ArgumentsKept ==
    \A r \in Requests :
        /\ calls'[r].rows = calls[r].rows
        /\ calls'[r].week_date = calls[r].week_date

(* A call that enters its loop in this step does so with zeroed counts     *)
(* and streaks.                                                            *)
FreshCounters ==
    \A r \in Requests :
        (calls[r].pc = "start" /\ calls'[r].pc = "loop") =>
            /\ calls'[r].breaks = AllZeroReport
            /\ calls'[r].current_upper_consec = 0
            /\ calls'[r].current_lower_consec = 0

(* A call that has returned after this step holds the report of a call run *)
(* alone on its rows.                                                      *)
ReportAsAlone ==
    \A r \in Requests :
        calls'[r].pc = "done" =>
            calls'[r].breaks = get_band_breaks(calls'[r].rows, calls'[r].week_date)

(* C19: the calls of get_band_breaks share no state: whatever the order in *)
(* which the steps of concurrent calls interleave, no step changes the     *)
(* row list or a row of any call, every call starts from zeroed counts and *)
(* streaks, and the report of every call is the one it gets when run alone *)
(* on its own rows.                                                        *)
C19_CallsIndependent ==
    [][ArgumentsKept /\ FreshCounters /\ ReportAsAlone]_vars

(* Both calls in the middle of their pass at once, with different counts. *)
C19_Witness ==
    /\ pc = "calls"
    /\ \A r \in Requests :
          /\ calls[r].pc = "loop"
          /\ calls[r].idx = 2
          /\ Len(calls[r].sorted_rows) = 2
    /\ calls[1].breaks.upper_85 = 1
    /\ calls[1].current_upper_consec = 1
    /\ calls[2].breaks.lower_85 = 1
    /\ calls[2].current_lower_consec = 1
    /\ calls[2].breaks.upper_85 = 0

====
